---- MODULE Spec2Model ----
(***************************************************************************)
(* State-machine model of the dreambody-server backend: the AppSync field  *)
(* router with its profile / quiz / plan accessors, the plan-generation    *)
(* orchestrator (generateUserPlans) and the EventBridge relay that stores  *)
(* plans delivered as notifications.                                       *)
(*                                                                         *)
(* Items of the four DynamoDB tables are functions from attribute names to *)
(* values (a JavaScript object / DynamoDB item); an absent attribute is an *)
(* attribute name outside the DOMAIN.  Attribute values other than userId  *)
(* are integers standing for opaque scalars; planId and questionId         *)
(* integers stand for the rank of the key string in sort-key order.        *)
(***************************************************************************)
EXTENDS Integers, Sequences, FiniteSets, TLC

\* ------------------------------------------------------------------ bounds
MaxTime == 1
MaxPlanId == 2

Users == {"u1", "u2"}
Times == 0..MaxTime
PlanIds == 1..MaxPlanId
MaxQuestionId == 2
QuestionIds == 1..MaxQuestionId

MaxCreates == 2
Reqs == 1..MaxCreates

\* ------------------------------------------------------- object helpers
\* a missing table row, and the null / undefined a handler returns for it
NoItem == [absent |-> TRUE]

\* JavaScript object spread {...a, ...b}: keys of b win
Spread(a, b) ==
  [k \in (DOMAIN a) \cup (DOMAIN b) |-> IF k \in DOMAIN b THEN b[k] ELSE a[k]]

\* the object without one key (const { userId, ...updateData } = input)
Without(a, key) == [k \in (DOMAIN a) \ {key} |-> a[k]]

Has(a, key) == key \in DOMAIN a

VARIABLES
  now,            \* the wall clock read by new Date().toISOString()
  profiles,       \* USER_PROFILES_TABLE : userId -> item
  quizResponses,  \* QUIZ_RESPONSES_TABLE: <<userId, questionId>> -> item
  exercisePlans,  \* EXERCISE_PLANS_TABLE: <<userId, planId>> -> item
  dietPlans,      \* DIET_PLANS_TABLE    : <<userId, planId>> -> item
  usedIds,        \* the identifiers uuidv4() has handed out so far
  gen,            \* the generateUserPlans request in flight
  resp,           \* outcome of the handler invocation that ran last
  exLast,         \* history: per user, planId of the exercise plan stored last
  dietLast,       \* history: per user, planId of the diet plan stored last
  bus,            \* the event bus: entries published and not yet delivered
  creates         \* createUserProfile requests that run concurrently

vars == <<now, profiles, quizResponses, exercisePlans, dietPlans, usedIds,
          gen, resp, exLast, dietLast, bus, creates>>

storeVars == <<profiles, quizResponses, exercisePlans, dietPlans>>
planVars == <<exercisePlans, dietPlans, usedIds, exLast, dietLast>>

\* ------------------------------------------------------ DynamoDB tables
EmptyProfiles == [u \in Users |-> NoItem]
EmptyQuiz == [k \in Users \X QuestionIds |-> NoItem]
EmptyPlans == [k \in Users \X PlanIds |-> NoItem]

Min(S) == CHOOSE m \in S : \A x \in S : m <= x
Max(S) == CHOOSE m \in S : \A x \in S : m >= x

\* the sort keys of a partition in key order, ascending (ScanIndexForward
\* true, the default) or descending (ScanIndexForward false)
RECURSIVE SortKeys(_, _)
SortKeys(S, forward) ==
  IF S = {} THEN <<>>
  ELSE LET m == IF forward THEN Min(S) ELSE Max(S)
       IN <<m>> \o SortKeys(S \ {m}, forward)

Take(s, n) == IF Len(s) <= n THEN s ELSE SubSeq(s, 1, n)

\* QueryCommand with KeyConditionExpression "userId = :userId" on a table
\* with a sort key; limit 0 stands for "no Limit"
Query(table, keys, userId, forward, limit) ==
  LET present == {k \in keys : table[<<userId, k>>] # NoItem}
      ordered == SortKeys(present, forward)
      cut == IF limit = 0 THEN ordered ELSE Take(ordered, limit)
  IN [i \in 1..Len(cut) |-> table[<<userId, cut[i]>>]]

\* response.Items?.[0] || null
FirstOrNull(items) == IF Len(items) = 0 THEN NoItem ELSE items[1]

\* ------------------------------------------------ request input domains
\* event.arguments is decoded JSON: no key of an input holds undefined
ProfileData ==
  { [k \in {} |-> 0],
    [name |-> 1],
    [name |-> 2, age |-> 30],
    [age |-> 31, gender |-> 1, height |-> 180, weight |-> 80] }

ProfileInputs == {Spread([userId |-> u], d) : u \in Users, d \in ProfileData}

QuizData == { [k \in {} |-> 0], [questionText |-> 1, responseData |-> 1],
              [responseData |-> 2, stepNumber |-> 1] }

QuizInputs ==
  {Spread([userId |-> u, questionId |-> q], d) :
     u \in Users, q \in QuestionIds, d \in QuizData}

Undefined == 0 - 1

\* ------------------------------------------------- profile/quiz accessor
Returned(op, value) == [op |-> op, ok |-> TRUE, value |-> value]
Thrown(op, error) == [op |-> op, ok |-> FALSE, error |-> error]

\* variant: the reply is read from response.Items, which a GetCommand
\* never sets
getUserProfile_Items(userId) ==
  /\ resp' = Returned("getUserProfile", NoItem)
  /\ UNCHANGED <<creates, bus, now, storeVars, usedIds, gen, exLast, dietLast>>

getUserProfile(userId) ==
  /\ resp' = Returned("getUserProfile", profiles[userId])
  /\ UNCHANGED <<creates, bus, now, storeVars, usedIds, gen, exLast, dietLast>>

\* variant: the query carries the Limit: 1 of the profile query
getQuizResponses_Limit1(userId) ==
  /\ resp' = Returned("getQuizResponses",
                      Query(quizResponses, QuestionIds, userId, TRUE, 1))
  /\ UNCHANGED <<creates, bus, now, storeVars, usedIds, gen, exLast, dietLast>>

getQuizResponses(userId) ==
  /\ resp' = Returned("getQuizResponses",
                      Query(quizResponses, QuestionIds, userId, TRUE, 0))
  /\ UNCHANGED <<creates, bus, now, storeVars, usedIds, gen, exLast, dietLast>>

\* variant: the item is stamped with createdAt only
NewProfileItem_NoUpdatedAt(input, timestamp) ==
  Spread(input, [createdAt |-> timestamp])

\* the item createUserProfile builds: { ...input, createdAt, updatedAt }
NewProfileItem(input, timestamp) ==
  Spread(input, [createdAt |-> timestamp, updatedAt |-> timestamp])

\* variant: the put carries no ConditionExpression
ProfilePutAllowed_Always(userId) == TRUE

\* ConditionExpression "attribute_not_exists(userId)": the put is refused
\* when an item with the same key is stored
ProfilePutAllowed(userId) == profiles[userId] = NoItem

createUserProfile(input) ==
  LET item == NewProfileItem(input, now)
  IN /\ IF ProfilePutAllowed(input.userId)
          THEN /\ profiles' = [profiles EXCEPT ![input.userId] = item]
               /\ resp' = [op |-> "createUserProfile", ok |-> TRUE,
                           value |-> item]
          ELSE /\ profiles' = profiles
               /\ resp' = [op |-> "createUserProfile", ok |-> FALSE,
                           error |-> "ConditionalCheckFailedException"]
     /\ UNCHANGED <<creates, bus, now, quizResponses, planVars, gen>>

\* createUserProfile in two steps, for invocations that run side by side:
\* request r reads the clock and builds its item ...
NotStarted == [pc |-> "idle"]

createItem(r, input) ==
  /\ creates[r] = NotStarted
  /\ creates' = [creates EXCEPT
                   ![r] = [pc |-> "built", item |-> NewProfileItem(input, now)]]
  /\ UNCHANGED <<bus, now, storeVars, usedIds, gen, resp, exLast, dietLast>>

\* ... and later sends its conditional put, which DynamoDB evaluates and
\* applies as one step
createPut(r) ==
  /\ creates[r].pc = "built"
  /\ LET item == creates[r].item
         accepted == ProfilePutAllowed(item.userId)
     IN /\ creates' = [creates EXCEPT
                         ![r] = [pc |-> "done", ok |-> accepted, item |-> item]]
        /\ IF accepted
             THEN /\ profiles' = [profiles EXCEPT ![item.userId] = item]
                  /\ resp' = [op |-> "createUserProfile", ok |-> TRUE,
                              value |-> item]
             ELSE /\ profiles' = profiles
                  /\ resp' = [op |-> "createUserProfile", ok |-> FALSE,
                              error |-> "ConditionalCheckFailedException"]
  /\ UNCHANGED <<bus, now, quizResponses, planVars, gen>>

\* variant: updatedAt is not among the SET clauses
UpdateAssignments_NoStamp(input, timestamp) ==
  LET updateData == Without(input, "userId")
      provided == {k \in DOMAIN updateData : updateData[k] # Undefined}
  IN [k \in provided |-> updateData[k]]

\* the SET clauses of the UpdateExpression: updatedAt always, then every
\* entry of updateData whose value is not undefined
UpdateAssignments(input, timestamp) ==
  LET updateData == Without(input, "userId")
      provided == {k \in DOMAIN updateData : updateData[k] # Undefined}
  IN Spread([updatedAt |-> timestamp], [k \in provided |-> updateData[k]])

\* variant: an update that finds no item stamps createdAt as well
\* (createdAt = if_not_exists(createdAt, :updatedAt))
UpdatedProfileItem_Stamped(old, input, timestamp) ==
  LET base == IF old = NoItem
                THEN [userId |-> input.userId, createdAt |-> timestamp]
                ELSE old
  IN Spread(base, UpdateAssignments(input, timestamp))

\* variant: the item is rebuilt from the input (a put instead of an update)
UpdatedProfileItem_Replace(old, input, timestamp) ==
  Spread([userId |-> input.userId], UpdateAssignments(input, timestamp))

\* UpdateCommand with ReturnValues ALL_NEW: the stored item (or, when none
\* is stored, the bare key) with the SET clauses applied
UpdatedProfileItem(old, input, timestamp) ==
  LET base == IF old = NoItem THEN [userId |-> input.userId] ELSE old
  IN Spread(base, UpdateAssignments(input, timestamp))

updateUserProfile(input) ==
  LET item == UpdatedProfileItem(profiles[input.userId], input, now)
  IN /\ profiles' = [profiles EXCEPT ![input.userId] = item]
     /\ resp' = Returned("updateUserProfile", item)
     /\ UNCHANGED <<creates, bus, now, quizResponses, planVars, gen>>

saveQuizResponse(input) ==
  LET item == Spread(input, [createdAt |-> now, updatedAt |-> now])
  IN /\ quizResponses' =
          [quizResponses EXCEPT ![<<input.userId, input.questionId>>] = item]
     /\ resp' = Returned("saveQuizResponse", item)
     /\ UNCHANGED <<creates, bus, now, profiles, planVars, gen>>

\* ----------------------------------------------------------- plan accessor
NoPlanId == 0

\* variant: the query without ScanIndexForward: false
GetPlan_Ascending(table, userId, planId) ==
  IF planId # NoPlanId
    THEN table[<<userId, planId>>]
    ELSE FirstOrNull(Query(table, PlanIds, userId, TRUE, 1))

\* getExercisePlan / getDietPlan share one body; table is the plan table
GetPlan(table, userId, planId) ==
  IF planId # NoPlanId
    THEN table[<<userId, planId>>]
    ELSE FirstOrNull(Query(table, PlanIds, userId, FALSE, 1))

getExercisePlan(userId, planId) ==
  /\ resp' = [op |-> "getExercisePlan", ok |-> TRUE, userId |-> userId,
              planId |-> planId,
              value |-> GetPlan(exercisePlans, userId, planId)]
  /\ UNCHANGED <<creates, bus, now, storeVars, usedIds, gen, exLast, dietLast>>

getDietPlan(userId, planId) ==
  /\ resp' = [op |-> "getDietPlan", ok |-> TRUE, userId |-> userId,
              planId |-> planId,
              value |-> GetPlan(dietPlans, userId, planId)]
  /\ UNCHANGED <<creates, bus, now, storeVars, usedIds, gen, exLast, dietLast>>

getUserPlans(userId) ==
  /\ resp' = Returned("getUserPlans",
        [exercisePlans |-> Query(exercisePlans, PlanIds, userId, TRUE, 0),
         dietPlans |-> Query(dietPlans, PlanIds, userId, TRUE, 0)])
  /\ UNCHANGED <<creates, bus, now, storeVars, usedIds, gen, exLast, dietLast>>

\* ------------------------------------------------------------ field router
FieldNames == {"getUserProfile", "getQuizResponses", "getExercisePlan",
               "getDietPlan", "getUserPlans", "createUserProfile",
               "updateUserProfile", "saveQuizResponse"}

\* field names no case of the switch matches: arbitrary ones, a field of
\* the schema another resolver owns, and a recognized name in another case
UnknownFields ==
  {"bogusField", "nonExistentField", "generateUserPlans", "GetUserProfile"}

NoArgs == [k \in {} |-> 0]

\* variant: a switch without default branch, the handler returns undefined
Unrecognized_Undefined(fieldName) ==
  /\ resp' = [op |-> "handler", ok |-> TRUE, value |-> NoItem,
              fieldName |-> fieldName]
  /\ UNCHANGED <<creates, bus, now, storeVars, usedIds, gen, exLast, dietLast>>

\* the default branch of the switch: throw, nothing read or written
Unrecognized(fieldName) ==
  /\ resp' = [op |-> "handler", ok |-> FALSE,
              error |-> "Unrecognized field name", fieldName |-> fieldName]
  /\ UNCHANGED <<creates, bus, now, storeVars, usedIds, gen, exLast, dietLast>>

handler(fieldName, args) ==
  CASE fieldName = "getUserProfile" -> getUserProfile(args.userId)
    [] fieldName = "getQuizResponses" -> getQuizResponses(args.userId)
    [] fieldName = "getExercisePlan" -> getExercisePlan(args.userId, args.planId)
    [] fieldName = "getDietPlan" -> getDietPlan(args.userId, args.planId)
    [] fieldName = "getUserPlans" -> getUserPlans(args.userId)
    [] fieldName = "createUserProfile" -> createUserProfile(args.input)
    [] fieldName = "updateUserProfile" -> updateUserProfile(args.input)
    [] fieldName = "saveQuizResponse" -> saveQuizResponse(args.input)
    [] OTHER -> Unrecognized(fieldName)

\* the clock advances between (and during) requests
Tick ==
  /\ now < MaxTime
  /\ now' = now + 1
  /\ UNCHANGED <<creates, bus, storeVars, usedIds, gen, resp, exLast, dietLast>>

\* ------------------------------------------- plan-generation orchestrator
PlanTypes == {"EXERCISE", "DIET", "BOTH"}

EmptyList == 0
NotSpecified == 0 - 2
NotProvided == 0 - 3

\* A model reply text is a sequence of segments: prose, a brace-delimited
\* span that is not valid JSON, or a span that parses to a JSON object.
Prose == [kind |-> "prose"]
Braces == [kind |-> "braces"]
Object(value) == [kind |-> "object", value |-> value]

PlanJson ==
  { [title |-> 1, exercises |-> 1, meals |-> 1],
    [planId |-> 1, userId |-> "u2", description |-> 2],
    [planId |-> 1, userId |-> "u2", title |-> 3] }

ReplyTexts ==
  { <<>>, <<Prose>>, <<Prose, Braces>> }
    \cup {<<Prose, Object(j), Prose>> : j \in PlanJson}
    \cup {<<Braces, Object(j), Object([title |-> 9])>> : j \in PlanJson}

\* the decoded body of the InvokeModel response: with or without content
ModelBodies == {[k \in {} |-> 0]} \cup {[text |-> t] : t \in ReplyTexts}

\* parsedResponse.content?.[0]?.text || ""
ReplyText(body) == IF Has(body, "text") THEN body.text ELSE <<>>

\* first syntactically valid JSON object of the text, NoItem when none
findValidJson(response) ==
  LET hits == {i \in 1..Len(response) : response[i].kind = "object"}
  IN IF hits = {} THEN NoItem ELSE response[Min(hits)].value

\* variant: an empty object stands in when no JSON is found
extractJsonFromResponse_Lenient(response) ==
  LET json == findValidJson(response)
  IN [ok |-> TRUE, value |-> IF json # NoItem THEN json ELSE [k \in {} |-> 0]]

\* extractJsonFromResponse: the JSON found, or a throw (ok is FALSE)
extractJsonFromResponse(response) ==
  LET json == findValidJson(response)
  IN IF json # NoItem
       THEN [ok |-> TRUE, value |-> json]
       ELSE [ok |-> FALSE, value |-> NoItem]

\* formatResponse: "Not provided" when falsy, the re-serialised document
\* when the text parses as JSON (odd tokens), the text itself otherwise
IsJsonText(responseData) == responseData % 2 = 1
formatResponse(q) ==
  IF ~Has(q, "responseData") THEN NotProvided
  ELSE IF IsJsonText(q.responseData) THEN 100 + q.responseData
  ELSE q.responseData

OrNotSpecified(profile, key) ==
  IF Has(profile, key) THEN profile[key] ELSE NotSpecified

QuizLines(quiz) ==
  [i \in 1..Len(quiz) |->
     [question |-> IF Has(quiz[i], "questionText")
                     THEN quiz[i].questionText ELSE quiz[i].questionId,
      response |-> formatResponse(quiz[i])]]

\* bmiValue.toFixed(1), in tenths; NotSpecified when the line is left out
Bmi(profile) ==
  IF Has(profile, "height") /\ Has(profile, "weight")
    THEN (2 * profile.weight * 100000 + profile.height * profile.height)
           \div (2 * profile.height * profile.height)
    ELSE NotSpecified

ExercisePrompt(userData) ==
  [kind |-> "exercise",
   age |-> OrNotSpecified(userData.profile, "age"),
   gender |-> OrNotSpecified(userData.profile, "gender"),
   height |-> OrNotSpecified(userData.profile, "height"),
   weight |-> OrNotSpecified(userData.profile, "weight"),
   quiz |-> QuizLines(userData.quizResponses)]

DietPrompt(userData) ==
  [kind |-> "diet",
   age |-> OrNotSpecified(userData.profile, "age"),
   gender |-> OrNotSpecified(userData.profile, "gender"),
   height |-> OrNotSpecified(userData.profile, "height"),
   weight |-> OrNotSpecified(userData.profile, "weight"),
   bmi |-> Bmi(userData.profile),
   quiz |-> QuizLines(userData.quizResponses)]

\* identifiers uuidv4() can still return: never one it returned before,
\* never one that is the planId of a stored record
StoredIds ==
  {p \in PlanIds : \E u \in Users :
     exercisePlans[<<u, p>>] # NoItem \/ dietPlans[<<u, p>>] # NoItem}
FreshIds == PlanIds \ (usedIds \cup StoredIds)

\* { planId: uuidv4(), userId: input.userId, ...exercisePlan,
\*   exercises: exercisePlan.exercises || [], createdAt, updatedAt }
ExercisePlanItem(uuid, userId, plan, timestamp) ==
  Spread(Spread([planId |-> uuid, userId |-> userId], plan),
         [exercises |-> IF Has(plan, "exercises")
                          THEN plan.exercises ELSE EmptyList,
          createdAt |-> timestamp, updatedAt |-> timestamp])

DietPlanItem(uuid, userId, plan, timestamp) ==
  Spread(Spread([planId |-> uuid, userId |-> userId], plan),
         [meals |-> IF Has(plan, "meals") THEN plan.meals ELSE EmptyList,
          createdAt |-> timestamp, updatedAt |-> timestamp])

\* variant: the put never reaches the table
Put_Dropped(table, item) == table

\* PutCommand without condition: the row with the item's key is replaced
Put(table, item) == [table EXCEPT ![<<item.userId, item.planId>>] = item]

\* the locals of the request in flight; pc is the await it stands at
GenIdle ==
  [pc |-> "idle", userId |-> "u1", planType |-> "BOTH", timestamp |-> 0,
   userData |-> NoItem, plan |-> NoItem, calls |-> 0, reply |-> "none",
   exUuid |-> 0, dietUuid |-> 0, exItem |-> NoItem, dietItem |-> NoItem,
   exWrites |-> 0, dietWrites |-> 0]

\* the two branch conditions of generateUserPlans
WantsExercise(planType) == planType = "EXERCISE" \/ planType = "BOTH"
\* variant: the diet branch is taken for every plan type
WantsDiet_Always(planType) == TRUE
WantsDiet(planType) == planType = "DIET" \/ planType = "BOTH"

\* whether some span of a reply text is a JSON object
HasObject(text) == \E i \in 1..Len(text) : text[i].kind = "object"

Pending(op) == [op |-> op, ok |-> TRUE, pending |-> TRUE]

\* what generateUserPlans returns: the items it stored
GenResult(g) ==
  Spread(IF g.exItem = NoItem THEN [k \in {} |-> 0]
                              ELSE [exercisePlan |-> g.exItem],
         IF g.dietItem = NoItem THEN [k \in {} |-> 0]
                                ELSE [dietPlan |-> g.dietItem])

\* the request ends: it returns result, or rethrows the error it caught;
\* req keeps the locals the request ended with
Return(g) ==
  /\ gen' = GenIdle
  /\ resp' = [op |-> "generateUserPlans", ok |-> TRUE, pending |-> FALSE,
              error |-> "none", value |-> GenResult(g), req |-> g]

Throw(g, error) ==
  /\ gen' = GenIdle
  /\ resp' = [op |-> "generateUserPlans", ok |-> FALSE, pending |-> FALSE,
              error |-> error, value |-> NoItem, req |-> g]

\* a request arrives; the single orchestrator slot is free
generateUserPlans(input) ==
  /\ gen.pc = "idle"
  /\ gen' = [GenIdle EXCEPT !.pc = "collect", !.userId = input.userId,
                            !.planType = input.planType]
  /\ resp' = Pending("generateUserPlans")
  /\ UNCHANGED <<creates, bus, now, storeVars, usedIds, exLast, dietLast>>

\* variant: the missing profile is not checked
collectUserData_NoCheck ==
  /\ gen.pc = "collect"
  /\ gen' = [gen EXCEPT
        !.userData = [profile |-> profiles[gen.userId],
                      quizResponses |-> Query(quizResponses, QuestionIds,
                                              gen.userId, TRUE, 0)],
        !.timestamp = now,
        !.pc = IF WantsExercise(gen.planType) THEN "exercise" ELSE "diet"]
  /\ resp' = Pending("generateUserPlans")
  /\ UNCHANGED <<creates, bus, now, storeVars, usedIds, exLast, dietLast>>

\* collectUserData, then result = {} and timestamp = new Date()
collectUserData ==
  /\ gen.pc = "collect"
  /\ LET profile == profiles[gen.userId]
         quiz == Query(quizResponses, QuestionIds, gen.userId, TRUE, 0)
     IN IF profile = NoItem
          THEN Throw(gen, "User profile not found")
          ELSE LET g == [gen EXCEPT
                          !.userData = [profile |-> profile,
                                        quizResponses |-> quiz],
                          !.timestamp = now]
               IN IF WantsExercise(gen.planType)
                    THEN /\ gen' = [g EXCEPT !.pc = "exercise"]
                         /\ resp' = Pending("generateUserPlans")
                    ELSE IF WantsDiet(gen.planType)
                      THEN /\ gen' = [g EXCEPT !.pc = "diet"]
                           /\ resp' = Pending("generateUserPlans")
                      ELSE Return(g)
  /\ UNCHANGED <<creates, bus, now, storeVars, usedIds, exLast, dietLast>>

\* what the awaited InvokeModelCommand can do: throw, or answer with a body
ModelOutcomes ==
  {[throws |-> TRUE]} \cup {[throws |-> FALSE, body |-> b] : b \in ModelBodies}

\* generateExercisePlan / generateDietPlan: render the prompt, call the
\* model once with it, extract the JSON object from the reply
GeneratePlan(pc, next, prompt) ==
  /\ gen.pc = pc
  /\ \E outcome \in ModelOutcomes :
       LET g == [gen EXCEPT
                   !.calls = gen.calls + 1,
                   !.reply = IF outcome.throws THEN "none"
                             ELSE IF HasObject(ReplyText(outcome.body))
                               THEN "object" ELSE "noobject"]
       IN IF outcome.throws
            THEN Throw(g, "Error invoking Bedrock model")
            ELSE LET extracted ==
                       extractJsonFromResponse(ReplyText(outcome.body))
                 IN IF extracted.ok
                      THEN /\ gen' = [g EXCEPT !.pc = next,
                                               !.plan = extracted.value]
                           /\ resp' = [op |-> "generateUserPlans", ok |-> TRUE,
                                       pending |-> TRUE, prompt |-> prompt]
                      ELSE Throw(g, "Error extracting JSON from response")
  /\ UNCHANGED <<creates, bus, now, storeVars, usedIds, exLast, dietLast>>

generateExercisePlan ==
  GeneratePlan("exercise", "saveExercise", ExercisePrompt(gen.userData))
generateDietPlan ==
  GeneratePlan("diet", "saveDiet", DietPrompt(gen.userData))

\* build exercisePlanItem and await saveExercisePlan(exercisePlanItem)
saveExercisePlan ==
  /\ gen.pc = "saveExercise"
  /\ \E uuid \in FreshIds, putOk \in BOOLEAN :
       LET item == ExercisePlanItem(uuid, gen.userId, gen.plan, gen.timestamp)
           g == [gen EXCEPT !.exUuid = uuid]
       IN /\ usedIds' = usedIds \cup {uuid}
          /\ IF putOk
               THEN /\ exercisePlans' = Put(exercisePlans, item)
                    /\ exLast' = [exLast EXCEPT ![item.userId] = item.planId]
                    /\ LET h == [g EXCEPT !.exItem = item,
                                          !.exWrites = g.exWrites + 1]
                       IN IF WantsDiet(gen.planType)
                            THEN /\ gen' = [h EXCEPT !.plan = NoItem,
                                                     !.pc = "diet"]
                                 /\ resp' = Pending("generateUserPlans")
                            ELSE Return(h)
               ELSE /\ Throw(g, "DynamoDB put failed")
                    /\ UNCHANGED <<exercisePlans, exLast>>
  /\ UNCHANGED <<creates, bus, now, profiles, quizResponses, dietPlans, dietLast>>

\* build dietPlanItem and await saveDietPlan(dietPlanItem), then return
saveDietPlan ==
  /\ gen.pc = "saveDiet"
  /\ \E uuid \in FreshIds, putOk \in BOOLEAN :
       LET item == DietPlanItem(uuid, gen.userId, gen.plan, gen.timestamp)
           g == [gen EXCEPT !.dietUuid = uuid]
       IN /\ usedIds' = usedIds \cup {uuid}
          /\ IF putOk
               THEN /\ dietPlans' = Put(dietPlans, item)
                    /\ dietLast' = [dietLast EXCEPT ![item.userId] = item.planId]
                    /\ Return([g EXCEPT !.dietItem = item,
                                         !.dietWrites = g.dietWrites + 1])
               ELSE /\ Throw(g, "DynamoDB put failed")
                    /\ UNCHANGED <<dietPlans, dietLast>>
  /\ UNCHANGED <<creates, bus, now, profiles, quizResponses, exercisePlans, exLast>>

\* -------------------------------------------------------------- event relay
\* connectionId is given as its "-"-separated parts
RelayPlans ==
  { [title |-> 1, exercises |-> 1, meals |-> 1, dailyCalories |-> 2000],
    [userId |-> "u2", dailyCalories |-> 1800] }

RelayResponses ==
  { [k \in {} |-> 0],
    [exercisePlan |-> [title |-> 1, exercises |-> 1]],
    [dietPlan |-> [title |-> 1, meals |-> 1]] }
    \cup {[exercisePlan |-> e, dietPlan |-> e] : e \in RelayPlans}

RelayDetails ==
  {[connectionId |-> <<"u1", "c1">>],
   [connectionId |-> <<"u1", "c1">>, userId |-> "u1",
    exercisePlan |-> [title |-> 1], dietPlan |-> [title |-> 1]],
   [connectionId |-> <<"u1", "c1">>, userId |-> "u2",
    response |-> [exercisePlan |-> [title |-> 1, exercises |-> 1],
                  dietPlan |-> [title |-> 1, dailyCalories |-> 2000]]]}
    \cup {[connectionId |-> <<"u1", "c1">>, response |-> r] :
            r \in RelayResponses}

\* event["detail-type"]: the type the rule BedrockResponseRule lets through,
\* and another one (a direct invocation, another rule)
DetailTypes == {"bedrockResponded", "differentEventType"}
RelayEvents == [detailType : DetailTypes, detail : RelayDetails]

\* x || fallback on an attribute of a payload
OrElse(obj, key, fallback) == IF Has(obj, key) THEN obj[key] ELSE fallback

DefaultTitle == 0 - 4
DefaultDescription == 0 - 5

\* connectionId.split("-")[0]
SplitHead(connectionId) == connectionId[1]

\* variant: the record is keyed by one fixed planId per user
RelayExerciseItem_FixedId(uuid, plan, connectionId, timestamp) ==
  [planId |-> 1,
   userId |-> OrElse(plan, "userId", SplitHead(connectionId)),
   title |-> OrElse(plan, "title", DefaultTitle),
   description |-> OrElse(plan, "description", DefaultDescription),
   exercises |-> OrElse(plan, "exercises", EmptyList),
   createdAt |-> timestamp, updatedAt |-> timestamp]

RelayExerciseItem(uuid, plan, connectionId, timestamp) ==
  [planId |-> uuid,
   userId |-> OrElse(plan, "userId", SplitHead(connectionId)),
   title |-> OrElse(plan, "title", DefaultTitle),
   description |-> OrElse(plan, "description", DefaultDescription),
   exercises |-> OrElse(plan, "exercises", EmptyList),
   createdAt |-> timestamp, updatedAt |-> timestamp]

\* variant: the record always goes to the user of the connection
RelayDietItem_ConnectionUser(uuid, plan, connectionId, timestamp) ==
  [planId |-> uuid,
   userId |-> SplitHead(connectionId),
   title |-> OrElse(plan, "title", DefaultTitle),
   description |-> OrElse(plan, "description", DefaultDescription),
   dailyCalories |-> OrElse(plan, "dailyCalories", Undefined),
   meals |-> OrElse(plan, "meals", EmptyList),
   dietaryRestrictions |-> OrElse(plan, "dietaryRestrictions", EmptyList),
   createdAt |-> timestamp, updatedAt |-> timestamp]

RelayDietItem(uuid, plan, connectionId, timestamp) ==
  [planId |-> uuid,
   userId |-> OrElse(plan, "userId", SplitHead(connectionId)),
   title |-> OrElse(plan, "title", DefaultTitle),
   description |-> OrElse(plan, "description", DefaultDescription),
   dailyCalories |-> OrElse(plan, "dailyCalories", Undefined),
   meals |-> OrElse(plan, "meals", EmptyList),
   dietaryRestrictions |-> OrElse(plan, "dietaryRestrictions", EmptyList),
   createdAt |-> timestamp, updatedAt |-> timestamp]

\* the document client refuses to marshall an item holding undefined
Marshallable(item) ==
  \A k \in (DOMAIN item) \ {"userId"} : item[k] # Undefined

\* variant: each plan is processed in a try block of its own
DietReached_Always(doEx, exOk) == TRUE

\* the diet branch follows the exercise branch in one try block: it is
\* reached only when the exercise put, if there was one, did not throw
DietReached(doEx, exOk) == doEx => exOk

\* the relay's handler, whole: both puts in order, either may throw
relayHandler(event) ==
  LET detail == event.detail
  IN /\ IF ~Has(detail, "response")
          THEN /\ resp' = [op |-> "relay", ok |-> TRUE, value |-> NoItem,
                           wrote |-> 0, event |-> event,
                           exItem |-> NoItem, dietItem |-> NoItem]
               /\ UNCHANGED planVars
          ELSE LET response == detail.response
                   doEx == Has(response, "exercisePlan")
                   doDiet == Has(response, "dietPlan")
               IN
            \E id1 \in IF doEx THEN FreshIds ELSE {NoPlanId},
               id2 \in IF doDiet THEN FreshIds ELSE {NoPlanId},
               failAt \in 0..2 :
            LET exItem == RelayExerciseItem(id1, response.exercisePlan,
                                            detail.connectionId, now)
                dietItem == RelayDietItem(id2, response.dietPlan,
                                          detail.connectionId, now)
                exOk == doEx /\ failAt # 1
                dietOk == doDiet /\ DietReached(doEx, exOk) /\ failAt # 2
                                 /\ Marshallable(dietItem)
                thrown == (doEx /\ ~exOk) \/ (doDiet /\ ~dietOk)
            IN /\ (doEx /\ doDiet) => id1 # id2
               /\ failAt = 1 => doEx
               /\ failAt = 2 => doDiet /\ exOk = doEx
               /\ usedIds' = usedIds \cup (IF doEx THEN {id1} ELSE {})
                                     \cup (IF doDiet /\ DietReached(doEx, exOk)
                                             THEN {id2} ELSE {})
               /\ exercisePlans' = IF exOk THEN Put(exercisePlans, exItem)
                                           ELSE exercisePlans
               /\ exLast' = IF exOk
                     THEN [exLast EXCEPT ![exItem.userId] = exItem.planId]
                     ELSE exLast
               /\ dietPlans' = IF dietOk THEN Put(dietPlans, dietItem)
                                         ELSE dietPlans
               /\ dietLast' = IF dietOk
                     THEN [dietLast EXCEPT ![dietItem.userId] = dietItem.planId]
                     ELSE dietLast
               /\ resp' = [op |-> "relay", ok |-> ~thrown, value |-> NoItem,
                           wrote |-> (IF exOk THEN 1 ELSE 0)
                                       + (IF dietOk THEN 1 ELSE 0),
                           event |-> event,
                           exItem |-> IF exOk THEN exItem ELSE NoItem,
                           dietItem |-> IF dietOk THEN dietItem ELSE NoItem]
     /\ UNCHANGED <<creates, now, profiles, quizResponses, gen>>

\* -------------------------------------------------------------- flow invoker
MaxBus == 1
MaxChunks == 2

\* JSON text: JSON.stringify(value) is the text of a value and JSON.parse
\* gives the value back; EmptyText is "", Garbage a text that is not JSON
Stringify(value) == [json |-> value]
EmptyText == [empty |-> TRUE]
Garbage == [garbage |-> TRUE]
Parses(text) == Has(text, "json")
Parse(text) == text.json
EmptyObject == [k \in {} |-> 0]

\* the decoded request bodies: with content, without content
FlowRequests ==
  { [connectionId |-> <<"u1", "c1">>,
     content |-> [userProfile |-> [userId |-> "u1"]]],
    [connectionId |-> <<"u1", "c1">>] }

\* event.body: null, "", a text that is not JSON, a JSON document
FlowBodies == {NoItem, EmptyText, Garbage} \cup {Stringify(b) : b \in FlowRequests}
FlowEvents == [body : FlowBodies]

\* the documents a flow output event can carry; the last one is falsy ("")
FlowDocuments ==
  { [exercisePlan |-> [title |-> 1, exercises |-> 1],
     dietPlan |-> [title |-> 1, meals |-> 1, dailyCalories |-> 2000]],
    [exercisePlan |-> [title |-> 2, exercises |-> 1]],
    EmptyText }

\* a chunk of the response stream: a flowOutputEvent with its document, or
\* another event (flowCompletionEvent, flowTraceEvent)
FlowChunks == {EmptyObject} \cup {[document |-> d] : d \in FlowDocuments}

\* chunk.flowOutputEvent?.content?.document is truthy
Populated(chunk) == Has(chunk, "document") /\ chunk.document # EmptyText

FlowStreams == UNION {[1..n -> FlowChunks] : n \in 0..MaxChunks}

\* what the awaited InvokeFlowCommand can do: throw; answer without a
\* responseStream; answer with a stream that yields its chunks and then ends
\* or fails
FlowOutcomes ==
  {[throws |-> TRUE], [throws |-> FALSE, streamed |-> FALSE]}
    \cup [throws : {FALSE}, streamed : {TRUE}, chunks : FlowStreams,
          breaks : BOOLEAN]

\* variant: the first populated chunk is kept
RECURSIVE Drain_FirstWins(_, _)
Drain_FirstWins(result, chunks) ==
  IF chunks = <<>> THEN result
  ELSE Drain_FirstWins(IF Populated(Head(chunks)) /\ result = EmptyText
                         THEN Stringify(Head(chunks).document) ELSE result,
                       Tail(chunks))

\* the for-await loop over response.responseStream, from result onwards
RECURSIVE Drain(_, _)
Drain(result, chunks) ==
  IF chunks = <<>> THEN result
  ELSE Drain(IF Populated(Head(chunks))
               THEN Stringify(Head(chunks).document) ELSE result,
             Tail(chunks))

\* the entry of the PutEventsCommand
FlowEntry(connectionId, result) ==
  [EventBusName |-> "eventBusName",
   Source |-> "promptEventHandler",
   DetailType |-> "bedrockResponded",
   Detail |-> Stringify([connectionId |-> connectionId,
                         response |-> IF result # EmptyText
                                        THEN Parse(result) ELSE EmptyObject])]

\* an APIGatewayProxyResult
FlowResult(statusCode, body) ==
  [statusCode |-> statusCode, body |-> Stringify(body)]

\* outcome of one functionHandler invocation: its result, the flow inputs
\* it sent, the chunks it read and the entries it published
FlowResp(event, result, invoked, chunks, published) ==
  [op |-> "functionHandler", ok |-> TRUE, event |-> event, value |-> result,
   invoked |-> invoked, chunks |-> chunks, published |-> published]

FlowFailed == FlowResult(500, [message |-> "Failed to invoke plan generation flow"])

\* the outcome of an invocation that reached the flow, with what the flow did
Observed(r, flow) == Spread(r, [flow |-> flow])

\* variant: the loop over the stream sits in a try block of its own
FlowCompleted_StreamErrorsSwallowed(flow) == ~flow.throws

\* the try block gets past the send and the for-await loop: neither the
\* InvokeFlowCommand nor the response stream threw
FlowCompleted(flow) == ~(flow.throws \/ (flow.streamed /\ flow.breaks))

\* SSM parameter names, as their "/"-separated segments
ParameterNames ==
  {"flowIdentifier", "flowAliasIdentifier", "startNodeName",
   "endNodeOutputName"}

\* the stages the stack is instantiated for: the default and the tests'
Stages == {"dev", "test"}

\* the name the handler asks getParametersByName for
LookupName(name) == <<"dreambody-server", "dreambodyV1", name>>

\* the name the BedrockFlowStack gives the parameter it creates
CreatedName(stage, name) == <<"dreambody-server", stage, "dreambodyV1", name>>

DeployedParameters(stage) == {CreatedName(stage, n) : n \in ParameterNames}

\* parameters an operator created by hand under the handler's names
HandMadeParameters == {LookupName(n) : n \in ParameterNames}

\* what the parameter store can hold when the handler runs: what a deployed
\* stack created, alone or beside hand-made parameters, all or all but one
SsmStores ==
  {DeployedParameters(st) : st \in Stages}
    \cup {DeployedParameters("dev") \cup HandMadeParameters,
          DeployedParameters("dev")
            \cup (HandMadeParameters \ {LookupName("startNodeName")})}

\* the _errors of getParametersByName with throwOnError false
MissingParameters(ssm) == {n \in ParameterNames : LookupName(n) \notin ssm}

\* an outcome with the parameter store the invocation ran against
Under(ssm, r) == Spread(r, [ssm |-> ssm])

\* variant: the result is returned before the event is published
functionHandler_NoPublish(event) ==
  /\ \E paramErrors \in BOOLEAN, flow \in FlowOutcomes :
       /\ ~paramErrors /\ event.body \notin {NoItem, EmptyText}
       /\ Parses(event.body) /\ ~flow.throws
       /\ resp' = FlowResp(event,
            FlowResult(200, [success |-> TRUE,
                             connectionId |-> Parse(event.body).connectionId,
                             message |-> "Flow invoked successfully"]),
            <<EmptyObject>>, <<>>, <<>>)
  /\ UNCHANGED <<creates, bus, now, storeVars, usedIds, gen, exLast, dietLast>>

\* functionHandler, whole: parameters, body check, flow invocation, drain
\* of the stream, publish, result
functionHandler(event) ==
  /\ \E ssm \in SsmStores :
       IF MissingParameters(ssm) # {}
         THEN /\ resp' = Under(ssm, FlowResp(event,
                   FlowResult(500, [message |-> "Missing configuration parameters"]),
                   <<>>, <<>>, <<>>))
              /\ bus' = bus
       ELSE IF event.body \in {NoItem, EmptyText}
         THEN /\ resp' = Under(ssm, FlowResp(event,
                   FlowResult(400, [message |-> "No request body provided"]),
                   <<>>, <<>>, <<>>))
              /\ bus' = bus
       ELSE IF ~Parses(event.body)
         THEN /\ resp' = Under(ssm, FlowResp(event, FlowFailed, <<>>, <<>>,
                                             <<>>))
              /\ bus' = bus
       ELSE \E flow \in FlowOutcomes :
         LET body == Parse(event.body)
             connectionId == body.connectionId
             inputs == IF Has(body, "content")
                         THEN <<[document |-> body.content]>>
                         ELSE <<EmptyObject>>
             chunks == IF ~flow.throws /\ flow.streamed
                         THEN flow.chunks ELSE <<>>
             result == Drain(EmptyText, chunks)
             entry == FlowEntry(connectionId, result)
         IN IF ~FlowCompleted(flow)
              THEN /\ resp' = Under(ssm, Observed(FlowResp(event, FlowFailed,
                                         inputs, chunks, <<>>), flow))
                   /\ bus' = bus
              ELSE \E putOk \in BOOLEAN :
                IF ~putOk
                  THEN /\ resp' = Under(ssm, Observed(FlowResp(event,
                                         FlowFailed, inputs, chunks, <<>>), flow))
                       /\ bus' = bus
                  ELSE /\ Len(bus) < MaxBus
                       /\ bus' = Append(bus, entry)
                       /\ resp' = Under(ssm, Observed(FlowResp(event,
                            FlowResult(200, [success |-> TRUE,
                                             connectionId |-> connectionId,
                                             message |-> "Flow invoked successfully"]),
                            inputs, chunks, <<entry>>), flow))
  /\ UNCHANGED <<creates, now, storeVars, usedIds, gen, exLast, dietLast>>

\* the rule BedrockResponseRule: an entry of the bus with the rule's source
\* and detail-type is delivered to the relay
Deliver ==
  /\ bus # <<>>
  /\ Head(bus).Source = "promptEventHandler"
  /\ Head(bus).DetailType \in DetailTypes \ {"differentEventType"}
  /\ relayHandler([detailType |-> Head(bus).DetailType,
                   detail |-> Parse(Head(bus).Detail)])
  /\ bus' = Tail(bus)

\* ------------------------------------------------------------ specification
Init ==
  /\ now = 0
  /\ profiles = EmptyProfiles
  /\ quizResponses = EmptyQuiz
  /\ exercisePlans = EmptyPlans
  /\ dietPlans = EmptyPlans
  /\ usedIds = {}
  /\ gen = GenIdle
  /\ resp = [op |-> "none", ok |-> TRUE]
  /\ exLast = [u \in Users |-> NoPlanId]
  /\ dietLast = [u \in Users |-> NoPlanId]
  /\ bus = <<>>
  /\ creates = [r \in Reqs |-> NotStarted]

\* requests of the profile / quiz accessor through the field router
NextProfile ==
  \/ Tick
  \/ \E u \in Users : handler("getUserProfile", [userId |-> u])
  \/ \E i \in ProfileInputs : handler("createUserProfile", [input |-> i])
  \/ \E i \in ProfileInputs : handler("updateUserProfile", [input |-> i])
  \/ handler("bogusField", [k \in {} |-> 0])

\* requests of the quiz accessor through the field router
\* user u1 answers every question; user u2 answers the first one
QuizRequests ==
  {i \in QuizInputs :
     i.userId = "u1" \/ (i.questionId = 1 /\ Has(i, "stepNumber"))}

NextQuiz ==
  \/ Tick
  \/ \E u \in Users : handler("getQuizResponses", [userId |-> u])
  \/ \E i \in QuizRequests : handler("saveQuizResponse", [input |-> i])

\* the plan paths: only user u1 registers a profile and answers the quiz
PlanPathProfiles == {i \in ProfileInputs : i.userId = "u1" /\ Has(i, "height")}
PlanPathQuiz ==
  {i \in QuizInputs :
     i.userId = "u1" /\ i.questionId = 1 /\ Has(i, "questionText")}
GenInputs == [userId : Users, planType : PlanTypes]

\* planId arguments of the plan queries: none, or the first identifier
LookupIds == {NoPlanId, 1}

\* the orchestrator beside the accessor requests that feed it
NextGen ==
  \/ \E i \in PlanPathProfiles : handler("createUserProfile", [input |-> i])
  \/ \E i \in PlanPathQuiz : handler("saveQuizResponse", [input |-> i])
  \/ \E i \in GenInputs : generateUserPlans(i)
  \/ collectUserData
  \/ generateExercisePlan
  \/ saveExercisePlan
  \/ generateDietPlan
  \/ saveDietPlan

\* the plan tables: their two writers (orchestrator, relay) and the plan
\* accessor that reads them
NextPlans ==
  \/ \E i \in PlanPathProfiles : handler("createUserProfile", [input |-> i])
  \/ \E u \in Users, p \in LookupIds :
       handler("getExercisePlan", [userId |-> u, planId |-> p])
  \/ \E u \in Users, p \in LookupIds :
       handler("getDietPlan", [userId |-> u, planId |-> p])
  \/ \E u \in Users : handler("getUserPlans", [userId |-> u])
  \/ \E i \in GenInputs : generateUserPlans(i)
  \/ collectUserData
  \/ generateExercisePlan
  \/ saveExercisePlan
  \/ generateDietPlan
  \/ saveDietPlan
  \/ \E e \in RelayEvents : relayHandler(e) /\ UNCHANGED bus

\* every field of the router, and a field name it does not know
NextApi ==
  \/ \E u \in Users : handler("getUserProfile", [userId |-> u])
  \/ \E u \in Users : handler("getQuizResponses", [userId |-> u])
  \/ \E u \in Users, p \in LookupIds :
       handler("getExercisePlan", [userId |-> u, planId |-> p])
  \/ \E u \in Users, p \in LookupIds :
       handler("getDietPlan", [userId |-> u, planId |-> p])
  \/ \E u \in Users : handler("getUserPlans", [userId |-> u])
  \/ \E i \in ProfileInputs : handler("createUserProfile", [input |-> i])
  \/ \E i \in ProfileInputs : handler("updateUserProfile", [input |-> i])
  \/ \E i \in PlanPathQuiz : handler("saveQuizResponse", [input |-> i])
  \/ \E f \in UnknownFields : handler(f, NoArgs)

\* deliveries to the relay, each notification any number of times
NextRelay ==
  \/ Tick
  \/ \E e \in RelayEvents : relayHandler(e) /\ UNCHANGED bus

\* createUserProfile invocations racing for the same userId: user u1 with
\* every profile data, user u2 with a bare userId
RaceInputs == {i \in ProfileInputs : i.userId = "u1" \/ DOMAIN i = {"userId"}}

NextRace ==
  \/ Tick
  \/ \E r \in Reqs, i \in RaceInputs : createItem(r, i)
  \/ \E r \in Reqs : createPut(r)

\* requests to the flow invoker; what it published stays on the bus
NextFlow == \E e \in FlowEvents : functionHandler(e)

\* the flow invoker with the bus and the relay behind it
NextBus ==
  \/ \E e \in FlowEvents : functionHandler(e)
  \/ Deliver

Next ==
  NextProfile \/ NextQuiz \/ NextGen \/ NextPlans \/ NextApi \/ NextRace
    \/ NextRelay \/ NextFlow \/ NextBus

Spec == Init /\ [][Next]_vars
SpecProfile == Init /\ [][NextProfile]_vars
SpecQuiz == Init /\ [][NextQuiz]_vars
SpecGen == Init /\ [][NextGen]_vars
SpecPlans == Init /\ [][NextPlans]_vars
SpecApi == Init /\ [][NextApi]_vars
SpecRace == Init /\ [][NextRace]_vars
SpecRelay == Init /\ [][NextRelay]_vars
SpecFlow == Init /\ [][NextFlow]_vars
SpecBus == Init /\ [][NextBus]_vars


\* ------------------------------------------------------------------ claims
ProfileExists(userId) == profiles[userId] # NoItem

\* C1: a createUserProfile request for a userId that already has a stored
\* profile does not succeed, whatever the other fields of the input are: it
\* throws the conditional-check failure and leaves the profile table as it is.
C1_DuplicateCreateFails ==
  [][\A i \in ProfileInputs :
       (ProfileExists(i.userId) /\ handler("createUserProfile", [input |-> i]))
         => /\ ~resp'.ok
            /\ resp'.error = "ConditionalCheckFailedException"
            /\ profiles' = profiles]_vars

\* a second createUserProfile for a stored userId has been refused
C1_Witness ==
  /\ resp.op = "createUserProfile"
  /\ ~resp.ok
  /\ \E u \in Users : ProfileExists(u)

\* C2: updateUserProfile on an existing profile leaves every stored attribute
\* that the input does not carry (createdAt included; updatedAt, which the
\* call always sets, excepted) with the value it had before the call, and
\* leaves the profiles of the other users alone.
C2_UpdateKeepsAbsentFields ==
  [][\A i \in ProfileInputs :
       (ProfileExists(i.userId) /\ handler("updateUserProfile", [input |-> i]))
         => /\ \A k \in (DOMAIN profiles[i.userId]) \ ((DOMAIN i) \cup {"updatedAt"}) :
                 /\ k \in DOMAIN profiles'[i.userId]
                 /\ profiles'[i.userId][k] = profiles[i.userId][k]
            /\ profiles'[i.userId].userId = i.userId
            /\ \A u \in Users \ {i.userId} : profiles'[u] = profiles[u]]_vars

\* an update has returned a profile that still holds name, height and
\* createdAt: no single input carries both name and height, so one of them
\* was absent from the update's input and kept
C2_Witness ==
  /\ resp.op = "updateUserProfile"
  /\ Has(resp.value, "createdAt")
  /\ Has(resp.value, "name")
  /\ Has(resp.value, "height")
  /\ profiles[resp.value.userId] = resp.value

Ended == resp.op = "generateUserPlans" /\ ~resp.pending

ExtractionError == "Error extracting JSON from response"
ModelError == "Error invoking Bedrock model"

\* C3: a BOTH request whose exercise plan was generated and stored and
\* whose diet generation then fails (the model call throws or no JSON is
\* extracted) fails as a whole, and the exercise record it stored is still
\* in the table, unchanged; no diet record was written.
C3_ExerciseKeptWhenDietFails ==
  (Ended /\ resp.req.planType = "BOTH" /\ resp.req.pc = "diet")
    => /\ ~resp.ok
       /\ resp.error \in {ExtractionError, ModelError}
       /\ resp.value = NoItem
       /\ resp.req.exWrites = 1
       /\ resp.req.dietWrites = 0
       /\ exercisePlans[<<resp.req.exItem.userId, resp.req.exItem.planId>>]
            = resp.req.exItem

\* a BOTH request has failed in its diet generation with its exercise plan
\* stored
C3_Witness ==
  /\ Ended /\ ~resp.ok
  /\ resp.req.planType = "BOTH" /\ resp.req.pc = "diet"
  /\ resp.error = ModelError
  /\ resp.req.exItem # NoItem
  /\ exercisePlans[<<resp.req.exItem.userId, resp.req.exItem.planId>>]
       = resp.req.exItem

\* C4: plan records are write-once: a stored exercise or diet plan record is
\* never changed or replaced by a later step of the system.
C4_PlansWriteOnce ==
  [][\A k \in Users \X PlanIds :
       /\ exercisePlans[k] # NoItem => exercisePlans'[k] = exercisePlans[k]
       /\ dietPlans[k] # NoItem => dietPlans'[k] = dietPlans[k]]_vars

\* C5: every plan record a successful generateUserPlans request stored
\* carries the planId generated for it and the request's userId, whatever the
\* extracted JSON object holds.
C5_TaggedWithFreshIdAndUser ==
  (Ended /\ resp.ok)
    => /\ resp.req.exItem # NoItem
            => /\ resp.req.exItem.planId = resp.req.exUuid
               /\ resp.req.exItem.userId = resp.req.userId
       /\ resp.req.dietItem # NoItem
            => /\ resp.req.dietItem.planId = resp.req.dietUuid
               /\ resp.req.dietItem.userId = resp.req.userId

\* C6: getExercisePlan / getDietPlan without planId return the plan of that
\* user that was stored last.
C6_LatestIsLastCreated ==
  /\ (resp.op = "getExercisePlan" /\ resp.planId = NoPlanId
        /\ exLast[resp.userId] # NoPlanId)
       => resp.value = exercisePlans[<<resp.userId, exLast[resp.userId]>>]
  /\ (resp.op = "getDietPlan" /\ resp.planId = NoPlanId
        /\ dietLast[resp.userId] # NoPlanId)
       => resp.value = dietPlans[<<resp.userId, dietLast[resp.userId]>>]

PlanTable(op) == IF op = "getExercisePlan" THEN exercisePlans ELSE dietPlans
PlansOf(table, userId) == {p \in PlanIds : table[<<userId, p>>] # NoItem}

\* C7: getExercisePlan / getDietPlan without planId return the stored plan of
\* that user whose planId is greatest in sort-key order, and null when the
\* user has no plan.
C7_LatestIsGreatestPlanId ==
  (resp.op \in {"getExercisePlan", "getDietPlan"} /\ resp.planId = NoPlanId)
    => LET table == PlanTable(resp.op)
           ids == PlansOf(table, resp.userId)
       IN IF ids = {}
            THEN resp.value = NoItem
            ELSE /\ resp.value # NoItem
                 /\ resp.value.planId \in ids
                 /\ \A p \in ids : p <= resp.value.planId
                 /\ resp.value = table[<<resp.userId, resp.value.planId>>]

\* plans 1 and 2 are stored for a user and the query has answered with plan 2
C7_Witness ==
  /\ resp.op = "getExercisePlan" /\ resp.planId = NoPlanId
  /\ {1, 2} \subseteq PlansOf(exercisePlans, resp.userId)
  /\ resp.value # NoItem
  /\ resp.value.planId = Max(PlansOf(exercisePlans, resp.userId))

\* C8: a generateUserPlans request for a userId without stored profile fails
\* with "User profile not found" before any model call and before any plan
\* write.
C8_NoProfileNoPlan ==
  (Ended /\ ~ProfileExists(resp.req.userId))
    => /\ ~resp.ok
       /\ resp.error = "User profile not found"
       /\ resp.req.calls = 0
       /\ resp.req.exWrites = 0 /\ resp.req.dietWrites = 0
       /\ resp.req.exItem = NoItem /\ resp.req.dietItem = NoItem

\* a request of the user without profile has failed, with plans of other
\* requests already stored
C8_Witness ==
  /\ Ended /\ ~resp.ok
  /\ resp.req.userId = "u2"
  /\ ~ProfileExists("u2")
  /\ resp.error = "User profile not found"
  /\ \E k \in Users \X PlanIds : exercisePlans[k] # NoItem

\* C9: a successful generateUserPlans request has called the model once per
\* requested plan type and stored one record per requested type (EXERCISE:
\* one call, one exercise write, no diet write; DIET the converse; BOTH: two
\* calls, one write to each table); and while a BOTH request stands before
\* its diet model call, its exercise plan is already stored after one call.
C9_OneCallOneWritePerType ==
  /\ (Ended /\ resp.ok)
       => /\ resp.req.planType = "EXERCISE"
               => /\ resp.req.calls = 1
                  /\ resp.req.exWrites = 1 /\ resp.req.dietWrites = 0
          /\ resp.req.planType = "DIET"
               => /\ resp.req.calls = 1
                  /\ resp.req.exWrites = 0 /\ resp.req.dietWrites = 1
          /\ resp.req.planType = "BOTH"
               => /\ resp.req.calls = 2
                  /\ resp.req.exWrites = 1 /\ resp.req.dietWrites = 1
  /\ (gen.pc = "diet" /\ gen.planType = "BOTH")
       => /\ gen.calls = 1
          /\ gen.exWrites = 1
          /\ exercisePlans[<<gen.exItem.userId, gen.exItem.planId>>] = gen.exItem

\* a BOTH request has returned both plans
C9_Witness ==
  /\ Ended /\ resp.ok
  /\ resp.req.planType = "BOTH"
  /\ Has(resp.value, "exercisePlan") /\ Has(resp.value, "dietPlan")

\* the plan type whose generation the request ended in
EndedIn(pc) == Ended /\ resp.req.pc = pc /\ resp.req.reply = "noobject"

\* C10: when the reply of the model call for a plan type holds no JSON
\* object, the request fails with the extraction error, the model is not
\* called again and no record of that plan type is written, also when the
\* user's quiz-response list is empty.
C10_NoJsonNoPlan ==
  (Ended /\ resp.req.reply = "noobject")
    => /\ ~resp.ok
       /\ resp.error = ExtractionError
       /\ resp.req.pc \in {"exercise", "diet"}
       /\ EndedIn("exercise")
            => /\ resp.req.calls = 1
               /\ resp.req.exWrites = 0 /\ resp.req.dietWrites = 0
       /\ EndedIn("diet")
            => /\ resp.req.calls = (IF resp.req.planType = "BOTH" THEN 2 ELSE 1)
               /\ resp.req.dietWrites = 0

\* a request of a user with a profile and no quiz response has failed on a
\* reply without JSON object
C10_Witness ==
  /\ Ended /\ ~resp.ok
  /\ resp.error = ExtractionError
  /\ resp.req.reply = "noobject"
  /\ resp.req.userData # NoItem
  /\ Len(resp.req.userData.quizResponses) = 0

\* ------------------------------------------------------- event relay claims
\* the results the relay's test expects of the handler
IgnoredResult ==
  [statusCode |-> 200, message |-> "Event ignored - not relevant"]
InvalidResult == [statusCode |-> 400, message |-> "Invalid event data"]
SuccessResult(userId) ==
  [statusCode |-> 200, message |-> "Event processed successfully",
   userId |-> userId]

Relayed == resp.op = "relay"
Sentinel == "bedrockResponded"

\* the notification carries the plan payload, as a direct field of detail
\* (the documented envelope) or under detail.response (what the handler reads)
Carries(detail, key) ==
  \/ Has(detail, key)
  \/ Has(detail, "response") /\ Has(detail.response, key)

\* the user the notification is about
Subject(detail) ==
  IF Has(detail, "userId") THEN detail.userId
  ELSE SplitHead(detail.connectionId)

\* C11: for a notification whose detail-type is not "bedrockResponded" the
\* relay persists nothing and returns the "ignored" result, also when the
\* detail holds both plan payloads.
C11_IgnoresOtherDetailTypes ==
  (Relayed /\ resp.event.detailType # Sentinel)
    => /\ resp.wrote = 0
       /\ resp.value = IgnoredResult

\* C12: for a notification with the sentinel detail-type whose payload lacks
\* the exercisePlan or the dietPlan, the relay persists no plan record and
\* returns the "invalid" result (400, "Invalid event data").
C12_InvalidWhenPlanMissing ==
  (Relayed /\ resp.event.detailType = Sentinel
     /\ ~(Carries(resp.event.detail, "exercisePlan")
           /\ Carries(resp.event.detail, "dietPlan")))
    => /\ resp.wrote = 0
       /\ resp.value = InvalidResult

\* C13: for a notification with the sentinel detail-type that carries both
\* plan payloads, a relay invocation that does not throw has stored one
\* exercise and one diet record, each under its own generated planId and
\* stamped with the current time, and returns the success result carrying
\* the subject's userId.
C13_BothPlansStoredAndSuccess ==
  (Relayed /\ resp.ok /\ resp.event.detailType = Sentinel
     /\ Carries(resp.event.detail, "exercisePlan")
     /\ Carries(resp.event.detail, "dietPlan"))
    => /\ resp.wrote = 2
       /\ resp.exItem # NoItem /\ resp.dietItem # NoItem
       /\ resp.exItem.planId # resp.dietItem.planId
       /\ resp.exItem.createdAt = now /\ resp.dietItem.createdAt = now
       /\ resp.value = SuccessResult(Subject(resp.event.detail))

\* ------------------------------------------------------ flow invoker claims
Invoked == resp.op = "functionHandler"
Request == Parse(resp.event.body)
Published == resp.published # <<>>
PublishedDetail == Parse(resp.published[1].Detail)
\* positions of the chunks read that carry a populated document
PopulatedAt == {i \in 1..Len(resp.chunks) : Populated(resp.chunks[i])}
\* the document the flow put out last, the empty object when it put out none
FlowOutput ==
  IF PopulatedAt = {} THEN EmptyObject
  ELSE resp.chunks[Max(PopulatedAt)].document

\* C14: the detail of the notification the flow invoker publishes carries
\* connectionId, the userId of the request content's user profile, and the
\* exercisePlan and dietPlan of the flow output as direct fields.
C14_EnvelopeCarriesUserIdAndPlans ==
  (Invoked /\ Published)
    => /\ Has(PublishedDetail, "connectionId")
       /\ PublishedDetail.connectionId = Request.connectionId
       /\ Has(PublishedDetail, "userId")
       /\ Has(Request, "content")
            => PublishedDetail.userId = Request.content.userProfile.userId
       /\ \A key \in {"exercisePlan", "dietPlan"} :
            Has(FlowOutput, key)
              => /\ Has(PublishedDetail, key)
                 /\ PublishedDetail[key] = FlowOutput[key]

\* C15: a request without body is answered 400 "No request body provided",
\* and no flow is invoked and no event published for it.
C15_NoBodyIs400 ==
  (Invoked /\ resp.event.body \in {NoItem, EmptyText})
    => /\ resp.value = FlowResult(400, [message |-> "No request body provided"])
       /\ resp.invoked = <<>>
       /\ resp.published = <<>>

\* C16: a request whose body has a connectionId and no content is answered
\* 400 with an "Invalid request" message, and no flow is invoked for it.
C16_MissingContentRejected ==
  (Invoked /\ Parses(resp.event.body) /\ Has(Request, "connectionId")
     /\ ~Has(Request, "content"))
    => /\ resp.invoked = <<>>
       /\ resp.value.statusCode = 400
       /\ Parse(resp.value.body).message = "Invalid request"

\* C17: the flow invoker answers 200 exactly when it has published an event:
\* a 200 result comes with exactly one entry published, of Source
\* "promptEventHandler" and DetailType "bedrockResponded", now on the bus,
\* after one flow invocation, and carries success true and the request's
\* connectionId; and whenever an entry was published the result is that 200.
C17_PublishedThenOk ==
  Invoked
    => /\ resp.value.statusCode = 200 <=> Published
       /\ Published
            => /\ Len(resp.published) = 1
               /\ resp.published[1].Source = "promptEventHandler"
               /\ resp.published[1].DetailType = "bedrockResponded"
               /\ bus # <<>> /\ bus[Len(bus)] = resp.published[1]
               /\ Len(resp.invoked) = 1
               /\ Parse(resp.value.body).success
               /\ Parse(resp.value.body).connectionId = Request.connectionId

\* a request with content has been answered 200 after a stream of chunks
C17_Witness ==
  /\ Invoked /\ Published
  /\ resp.value.statusCode = 200
  /\ Has(Request, "content")
  /\ Len(resp.chunks) > 0

\* C18: the response published in the event is the document of the last
\* chunk read that carries a populated flowOutputEvent document, whatever
\* documents came before it, and the empty object when no chunk carries one.
C18_LastDocumentWins ==
  (Invoked /\ Published)
    => /\ Has(PublishedDetail, "response")
       /\ PublishedDetail.response = FlowOutput

\* two chunks with different documents were read and the second was published
C18_Witness ==
  /\ Invoked /\ Published
  /\ {1, 2} \subseteq PopulatedAt
  /\ resp.chunks[1].document # resp.chunks[2].document
  /\ PublishedDetail.response = resp.chunks[2].document

\* -------------------------------------------------------------- quiz claims
\* the questionIds a user has a stored response for
Answered(userId) ==
  {q \in QuestionIds : quizResponses[<<userId, q>>] # NoItem}

\* C19: saveQuizResponse stores exactly its input (with the two timestamps)
\* under (userId, questionId), replacing what was stored there and nothing
\* else; getQuizResponses(userId) returns exactly the stored responses of
\* that user, one per questionId, none of another user, and changes nothing.
\* So the list returned is what was saved last per questionId, in whatever
\* order the saves came.
C19_QuizResponsesAreWhatWasSaved ==
  [][/\ \A i \in QuizInputs :
          handler("saveQuizResponse", [input |-> i])
            => LET key == <<i.userId, i.questionId>>
               IN /\ quizResponses'[key] # NoItem
                  /\ DOMAIN quizResponses'[key]
                       = (DOMAIN i) \cup {"createdAt", "updatedAt"}
                  /\ \A k \in DOMAIN i : quizResponses'[key][k] = i[k]
                  /\ \A other \in (Users \X QuestionIds) \ {key} :
                       quizResponses'[other] = quizResponses[other]
     /\ \A u \in Users :
          handler("getQuizResponses", [userId |-> u])
            => LET items == resp'.value
               IN /\ Len(items) = Cardinality(Answered(u))
                  /\ {items[n] : n \in 1..Len(items)}
                       = {quizResponses[<<u, q>>] : q \in Answered(u)}
                  /\ \A n \in 1..Len(items) : items[n].userId = u
                  /\ quizResponses' = quizResponses]_vars

\* both responses of a user were returned, saved at different times, while
\* the other user has a response stored as well
C19_Witness ==
  /\ resp.op = "getQuizResponses"
  /\ Len(resp.value) = 2
  /\ resp.value[1].createdAt # resp.value[2].createdAt
  /\ \E u \in Users : /\ u # resp.value[1].userId
                       /\ Answered(u) # {}

\* ----------------------------------------------------------- profile claims
\* C20: no request to the router removes a stored profile or changes its
\* userId: a profile stored for a userId is still stored for it after every
\* step, and getUserProfile(userId) returns it, never null.
C20_ProfileNeverDeleted ==
  [][\A u \in Users :
       ProfileExists(u)
         => /\ profiles'[u] # NoItem
            /\ profiles'[u].userId = u
            /\ handler("getUserProfile", [userId |-> u])
                 => /\ resp'.value # NoItem
                    /\ resp'.value = profiles[u]
                    /\ resp'.value.userId = u]_vars

\* a profile that was created and later updated has been read back while a
\* quiz response is stored
C20_Witness ==
  /\ resp.op = "getUserProfile"
  /\ resp.value # NoItem
  /\ Has(resp.value, "createdAt")
  /\ Has(resp.value, "name") /\ Has(resp.value, "height")
  /\ \E u \in Users : Answered(u) # {}

\* C21 as stated: after every updateUserProfile on an existing profile the
\* stored updatedAt differs from the value stored before the call.
C21_UpdatedAtAlwaysDiffers ==
  [][\A i \in ProfileInputs :
       (ProfileExists(i.userId) /\ handler("updateUserProfile", [input |-> i]))
         => profiles'[i.userId].updatedAt # profiles[i.userId].updatedAt]_vars

\* C21: after every updateUserProfile on an existing profile the stored and
\* returned updatedAt is the clock reading of the call, whatever fields the
\* input carries; it differs from the value stored before exactly when that
\* value is not the same clock reading.
C21_UpdatedAtIsCallTime ==
  [][\A i \in ProfileInputs :
       (ProfileExists(i.userId) /\ handler("updateUserProfile", [input |-> i]))
         => /\ resp'.ok
            /\ Has(profiles'[i.userId], "updatedAt")
            /\ profiles'[i.userId].updatedAt = now
            /\ resp'.value.updatedAt = now
            /\ (profiles'[i.userId].updatedAt # profiles[i.userId].updatedAt)
                 <=> (profiles[i.userId].updatedAt # now)]_vars

\* a profile created from a bare userId has been updated with a bare userId
\* at a later clock reading: updatedAt has moved away from createdAt
C21_Witness ==
  /\ resp.op = "updateUserProfile"
  /\ DOMAIN resp.value = {"userId", "createdAt", "updatedAt"}
  /\ resp.value.updatedAt # resp.value.createdAt

\* C22: createUserProfile for a userId without a stored profile succeeds and
\* returns the input's fields unchanged plus createdAt and updatedAt, both
\* the same clock reading; the returned object is what is stored, and a
\* getUserProfile returns what is stored.
C22_CreateThenGetMatchesInput ==
  [][/\ \A i \in ProfileInputs :
          (~ProfileExists(i.userId)
             /\ handler("createUserProfile", [input |-> i]))
            => /\ resp'.ok
               /\ DOMAIN resp'.value = (DOMAIN i) \cup {"createdAt", "updatedAt"}
               /\ \A k \in DOMAIN i : resp'.value[k] = i[k]
               /\ resp'.value.createdAt = now
               /\ resp'.value.updatedAt = resp'.value.createdAt
               /\ profiles'[i.userId] = resp'.value
     /\ \A u \in Users :
          handler("getUserProfile", [userId |-> u])
            => resp'.value = profiles[u]]_vars

\* a profile created with name and age at a later clock reading has been
\* read back as it was created
C22_Witness ==
  /\ resp.op = "getUserProfile"
  /\ resp.value # NoItem
  /\ DOMAIN resp.value = {"userId", "name", "age", "createdAt", "updatedAt"}
  /\ resp.value.createdAt > 0
  /\ resp.value.updatedAt = resp.value.createdAt

\* ------------------------------------------------------------ router claims
\* C23: a request whose field name is not one of the eight recognized ones
\* fails with the error "Unrecognized field name" naming that field name,
\* and leaves every table as it is; its outcome does not depend on what
\* the tables hold.
C23_UnrecognizedFieldFails ==
  [][\A f \in UnknownFields \ FieldNames :
       handler(f, NoArgs)
         => /\ resp' = [op |-> "handler", ok |-> FALSE,
                        error |-> "Unrecognized field name", fieldName |-> f]
            /\ UNCHANGED storeVars]_vars

\* the test's field name has been refused while a profile and a quiz
\* response are stored
C23_Witness ==
  /\ resp.op = "handler"
  /\ ~resp.ok
  /\ resp.fieldName = "nonExistentField"
  /\ \E u \in Users : ProfileExists(u) /\ Answered(u) # {}

\* ------------------------------------------------ concurrent create claims
RequestsFor(userId) ==
  {r \in Reqs : creates[r] # NotStarted /\ creates[r].item.userId = userId}
AnsweredFor(userId) == {r \in RequestsFor(userId) : creates[r].pc = "done"}
Succeeded(userId) == {r \in AnsweredFor(userId) : creates[r].ok}

\* C24: of the createUserProfile requests racing for a userId that had no
\* profile, in any interleaving of their steps, the first whose put arrives
\* succeeds and every other fails: once requests have been answered exactly
\* one of them has succeeded, the stored profile is the item of that request,
\* and the put of a failing request changes no table.
C24_ExactlyOneCreateWins ==
  /\ [](\A u \in Users :
         /\ Cardinality(Succeeded(u)) <= 1
         /\ AnsweredFor(u) # {} => Cardinality(Succeeded(u)) = 1
         /\ \A r \in Succeeded(u) : profiles[u] = creates[r].item
         /\ Succeeded(u) = {} => profiles[u] = NoItem)
  /\ [][\A r \in Reqs :
          (createPut(r) /\ ~creates'[r].ok) => UNCHANGED storeVars]_vars

\* two requests for one userId have both been answered, and the one that
\* read the clock later is the one that succeeded
C24_Witness ==
  \E u \in Users : \E r \in Succeeded(u) : \E q \in AnsweredFor(u) :
    /\ q # r
    /\ ~creates[q].ok
    /\ creates[q].item # creates[r].item
    /\ creates[q].item.createdAt < creates[r].item.createdAt

\* ------------------------------------------------- relay persistence claims
Stored(table) == {k \in Users \X PlanIds : table[k] # NoItem}
Payloads(event, key) ==
  IF Has(event.detail, "response") /\ Has(event.detail.response, key)
    THEN 1 ELSE 0

C26_ExerciseFirstNoRollback ==
  [][\A e \in RelayEvents :
       (relayHandler(e) /\ Payloads(e, "exercisePlan") = 1
                        /\ Payloads(e, "dietPlan") = 1)
         => /\ resp'.dietItem # NoItem => resp'.exItem # NoItem
            /\ resp'.ok <=> (resp'.exItem # NoItem /\ resp'.dietItem # NoItem)
            /\ resp'.exItem = NoItem
                 => /\ exercisePlans' = exercisePlans
                    /\ dietPlans' = dietPlans
                    /\ Cardinality(usedIds' \ usedIds) = 1
            /\ resp'.exItem # NoItem
                 => /\ exercisePlans'
                         = Put(exercisePlans, resp'.exItem)
                    /\ resp'.exItem.planId \notin usedIds \cup StoredIds
            /\ (resp'.exItem # NoItem /\ resp'.dietItem = NoItem)
                 => /\ ~resp'.ok
                    /\ dietPlans' = dietPlans
                    /\ Stored(exercisePlans')
                         = Stored(exercisePlans)
                             \cup {<<resp'.exItem.userId, resp'.exItem.planId>>}]_vars

\* a delivery carrying both payloads has thrown at the diet put, and its
\* exercise record is stored while the user has no diet record
C26_Witness ==
  /\ Relayed /\ ~resp.ok
  /\ Payloads(resp.event, "dietPlan") = 1
  /\ resp.exItem # NoItem /\ resp.dietItem = NoItem
  /\ exercisePlans[<<resp.exItem.userId, resp.exItem.planId>>] = resp.exItem
  /\ \A p \in PlanIds : dietPlans[<<resp.exItem.userId, p>>] = NoItem

\* the userId the relay is to store a payload under: the payload's own,
\* else the part of connectionId before its first "-"
Owner(detail, key) ==
  IF Has(detail.response[key], "userId")
    THEN detail.response[key].userId
    ELSE SplitHead(detail.connectionId)

\* C27: every record a relay delivery writes is stored under the userId of
\* its plan payload when the payload has one and under the head of
\* connectionId otherwise, whatever userId the notification detail carries;
\* no other user's partition changes.
C27_StoredUnderPayloadUserOrConnection ==
  [][\A e \in RelayEvents :
       relayHandler(e)
         => /\ resp'.exItem # NoItem
                 => /\ resp'.exItem.userId = Owner(e.detail, "exercisePlan")
                    /\ exercisePlans'[<<Owner(e.detail, "exercisePlan"),
                                        resp'.exItem.planId>>] = resp'.exItem
            /\ resp'.dietItem # NoItem
                 => /\ resp'.dietItem.userId = Owner(e.detail, "dietPlan")
                    /\ dietPlans'[<<Owner(e.detail, "dietPlan"),
                                    resp'.dietItem.planId>>] = resp'.dietItem
            /\ \A k \in Stored(exercisePlans') \ Stored(exercisePlans) :
                 /\ Payloads(e, "exercisePlan") = 1
                 /\ k[1] = Owner(e.detail, "exercisePlan")
                 /\ exercisePlans'[k].userId = k[1]
            /\ \A k \in Stored(dietPlans') \ Stored(dietPlans) :
                 /\ Payloads(e, "dietPlan") = 1
                 /\ k[1] = Owner(e.detail, "dietPlan")
                 /\ dietPlans'[k].userId = k[1]]_vars

\* a notification whose detail names user u2 and whose payloads name no
\* user has been stored under u1, the head of its connectionId
C27_Witness ==
  /\ Relayed /\ resp.ok
  /\ Has(resp.event.detail, "userId") /\ resp.event.detail.userId = "u2"
  /\ resp.exItem # NoItem /\ resp.exItem.userId = "u1"
  /\ resp.dietItem # NoItem /\ resp.dietItem.userId = "u1"
  /\ dietPlans[<<"u1", resp.dietItem.planId>>] = resp.dietItem

\* ------------------------------------------------- flow invoker failure
\* the flow was reached and the send or the reading of its stream threw
FlowBroke(r) ==
  Has(r, "flow") /\ (r.flow.throws \/ (r.flow.streamed /\ r.flow.breaks))

\* C28: when the InvokeFlowCommand or the reading of its response stream
\* throws, the flow invoker answers 500 "Failed to invoke plan generation
\* flow" and puts nothing on the bus; an invocation that publishes has a
\* flow that answered and whose stream, if any, was read to its end, all of
\* its chunks being what the published response was drained from.
C28_FlowFailureIs500NoEvent ==
  /\ [](Invoked
         => /\ FlowBroke(resp)
                 => /\ resp.value.statusCode = 500
                    /\ Parse(resp.value.body).message
                         = "Failed to invoke plan generation flow"
                    /\ ~Published
            /\ Published
                 => /\ Has(resp, "flow") /\ ~FlowBroke(resp)
                    /\ resp.flow.streamed => resp.chunks = resp.flow.chunks
                    /\ resp.published
                         = <<FlowEntry(Request.connectionId,
                                       Drain(EmptyText, resp.chunks))>>)
  /\ [][Len(bus') > Len(bus)
          => /\ resp'.op = "functionHandler"
             /\ resp'.published # <<>>
             /\ ~FlowBroke(resp')
             /\ bus' = Append(bus, resp'.published[1])]_vars

\* the stream has failed after yielding a chunk with a document: the answer
\* is the 500 and the bus is empty
C28_Witness ==
  /\ Invoked /\ FlowBroke(resp)
  /\ ~resp.flow.throws
  /\ PopulatedAt # {}
  /\ resp.value = FlowFailed
  /\ bus = <<>>

\* ------------------------------------------------------- upsert by update
\* C29: updateUserProfile for a userId without stored profile succeeds and
\* stores, and returns, a record holding the userId, the fields of the input
\* and updatedAt, and no createdAt; a profile without createdAt stays so
\* under further updates, and a createUserProfile for its userId is refused
\* as a duplicate, the record staying as it is.
C29_UpdateCreatesProfileWithoutCreatedAt ==
  [][\A i \in ProfileInputs :
       /\ (~ProfileExists(i.userId)
             /\ handler("updateUserProfile", [input |-> i]))
            => /\ resp'.ok
               /\ profiles'[i.userId] = resp'.value
               /\ DOMAIN resp'.value = (DOMAIN i) \cup {"updatedAt"}
               /\ \A k \in DOMAIN i : resp'.value[k] = i[k]
               /\ resp'.value.updatedAt = now
               /\ ~Has(resp'.value, "createdAt")
       /\ (ProfileExists(i.userId) /\ ~Has(profiles[i.userId], "createdAt"))
            => /\ handler("updateUserProfile", [input |-> i])
                    => ~Has(profiles'[i.userId], "createdAt")
               /\ handler("createUserProfile", [input |-> i])
                    => /\ ~resp'.ok
                       /\ resp'.error = "ConditionalCheckFailedException"
                       /\ profiles' = profiles]_vars

\* the only stored profile came from an update (it has a weight and no
\* createdAt), and a createUserProfile, which can only have been for its
\* userId, has just been refused
C29_Witness ==
  /\ resp.op = "createUserProfile" /\ ~resp.ok
  /\ \E u \in Users :
       /\ ProfileExists(u)
       /\ ~Has(profiles[u], "createdAt")
       /\ Has(profiles[u], "weight")
       /\ \A v \in Users \ {u} : ~ProfileExists(v)

\* ------------------------------------------------ flow invoker configuration
\* the parameter store holds what the stack created for some stage
StackDeployed(ssm) == \E st \in Stages : DeployedParameters(st) \subseteq ssm

\* C30: when the flow invoker runs against the parameters of a deployed
\* stack, each of the four names it looks up is among them, no parameter is
\* reported missing and the answer is not the 500 "Missing configuration
\* parameters".
C30_LookupFindsDeployedParameters ==
  (Invoked /\ Has(resp, "ssm") /\ StackDeployed(resp.ssm))
    => /\ \A n \in ParameterNames : LookupName(n) \in resp.ssm
       /\ MissingParameters(resp.ssm) = {}
       /\ ~(/\ resp.value.statusCode = 500
             /\ Parse(resp.value.body).message
                  = "Missing configuration parameters")

====
